---- MODULE Spec2Model ----
(***************************************************************************)
(* Model of ThermalData (src/ThermalData.py): the stored thermal video,    *)
(* the delta cube ds and its ROI windows, natural-frequency identification *)
(* in a pass band, and the per-pixel fatigue-life scan of get_life.        *)
(*                                                                         *)
(* Units.  Time steps dt are in milliseconds, frequencies in millihertz,   *)
(* so that rfftfreq and np.round(., 2) are integer computations.  Mouse    *)
(* coordinates are in half pixels (event.xdata is a float).                *)
(*                                                                         *)
(* Amplitudes.  The video has NFrames = 4 frames, for which the DFT has    *)
(* the exact twiddle factors 1, -i, -1, i.  The amplitude of a bin is      *)
(* |X_k| * 2 / N; the model carries |X_k|^2 (MagSq), an integer, and       *)
(* compares amplitudes through it (scaling and square root are strictly    *)
(* monotone).  amplitude ** k is computed for even k as a rational.        *)
(***************************************************************************)
EXTENDS Integers, Sequences, FiniteSets, TLC

VARIABLES x, dt, x_coord, y_coord, N, ds, call, ret

vars == <<x, dt, x_coord, y_coord, N, ds, call, ret>>

\* an optional argument is None or Some(value)
None == <<>>

Some(v) == <<v>>

Val(o) == o[1]

(* ------------------------------ bounds -------------------------------- *)

\* pixel (i, j) of a video of W columns carries history number
\* i * (W + 1) + j + off of the palette (modulo its length), for a pattern
\* offset off in 0..MaxPattern
MaxPattern == 1
\* arrays given to _find_nearest have 0..MaxLen entries
MaxLen == 3
\* entries of those arrays and the searched value lie in 0..MaxElem
MaxElem == 4

(* ------------------------------ integers ------------------------------ *)

Abs(a) == IF a < 0 THEN -a ELSE a

MinOf(S) == CHOOSE m \in S : \A o \in S : m <= o

MaxOf(S) == CHOOSE m \in S : \A o \in S : o <= m

\* int(a / b) for b > 0: Python's int() truncates toward zero
TruncDiv(a, b) == IF a >= 0 THEN a \div b ELSE -((-a) \div b)

RECURSIVE Gcd(_, _)
Gcd(a, b) == IF b = 0 THEN a ELSE Gcd(b, a % b)

RECURSIVE Pow(_, _)
Pow(a, n) == IF n = 0 THEN 1 ELSE a * Pow(a, n - 1)

(* ------------------------------ rationals ----------------------------- *)
(* A float result is the reduced fraction [num, den], den > 0, or one of   *)
(* the IEEE values Inf and NaN.                                            *)

Inf == [float |-> "inf"]

NaN == [float |-> "nan"]

Frac(n, d) == LET g == Gcd(Abs(n), Abs(d)) IN [num |-> n \div g, den |-> d \div g]

IsFrac(v) == DOMAIN v = {"num", "den"}

\* 1 / (n / d) for n >= 0; a float division by 0.0 gives inf
Recip(n, d) == IF n = 0 THEN Inf ELSE Frac(d, n)

FracAdd(a, b) ==
    IF a = NaN \/ b = NaN THEN NaN
    ELSE IF a = Inf \/ b = Inf THEN Inf
    ELSE LET l == (a.den \div Gcd(a.den, b.den)) * b.den
         IN  Frac(a.num * (l \div a.den) + b.num * (l \div b.den), l)

FracDivInt(a, n) ==
    IF a = NaN \/ a = Inf THEN a
    ELSE LET g == Gcd(Abs(a.num), n)
         IN  Frac(a.num \div g, a.den * (n \div g))

(* ------------------------------ the video ----------------------------- *)

NFrames == 4

Frames == 0 .. (NFrames - 1)

\* pixel histories (temperature at frames 0..3) the videos are built from
Palette ==
    << <<0, 1, 0, -1>>,     \* one tone at bin 1
       <<0, 1, 0, 1>>,      \* one tone at the Nyquist bin, and a mean
       <<2, 3, 2, 2>>,      \* an impulse: a flat spectrum
       <<1, 1, 1, 1>>,      \* no load: a zero delta history
       <<1, 2, 3, 4>> >>    \* a ramp

MkVideo(H, W, off) ==
    [t \in Frames |->
        [i \in 0 .. (H - 1) |->
            [j \in 0 .. (W - 1) |->
                Palette[((i * (W + 1) + j + off) % Len(Palette)) + 1][t + 1]]]]

Rows(v) == Cardinality(DOMAIN v[0])

Cols(v) == Cardinality(DOMAIN v[0][0])

\* self.x - self.x[0,:,:]
Delta(v) == [t \in DOMAIN v |-> [i \in DOMAIN v[t] |-> [j \in DOMAIN v[t][i] |->
                v[t][i][j] - v[0][i][j]]]]

(* ------------------------------ windows ------------------------------- *)
(* numpy basic slicing returns a view: self.ds is the window               *)
(* [r0, r0 + h) x [c0, c0 + w) onto the delta cube x - x[0].               *)

FullView(v) == [r0 |-> 0, h |-> Rows(v), c0 |-> 0, w |-> Cols(v)]

\* the index a slice bound b denotes on an axis of length len
SliceBound(b, len) ==
    LET c == IF b < 0 THEN b + len ELSE b
    IN  IF c < 0 THEN 0 ELSE IF c > len THEN len ELSE c

\* a[start:stop] on an axis of length len: [first index, number of entries]
Slice(start, stop, len) ==
    LET s == SliceBound(start, len)
        e == SliceBound(stop, len)
    IN  [lo |-> s, n |-> IF e > s THEN e - s ELSE 0]

\* the crop with the axes exchanged: d[:, x:(x+w), y:(y+h)]
CropSwapped(d, loc) ==
    LET r == Slice(loc[1], loc[1] + loc[3], d.h)
        c == Slice(loc[2], loc[2] + loc[4], d.w)
    IN  [r0 |-> d.r0 + r.lo, h |-> r.n, c0 |-> d.c0 + c.lo, w |-> c.n]

\* d[:, y:(y+h), x:(x+w)]
Crop(d, loc) ==
    LET r == Slice(loc[2], loc[2] + loc[4], d.h)
        c == Slice(loc[1], loc[1] + loc[3], d.w)
    IN  [r0 |-> d.r0 + r.lo, h |-> r.n, c0 |-> d.c0 + c.lo, w |-> c.n]

Pixels(d) == (0 .. (d.h - 1)) \X (0 .. (d.w - 1))

\* d[:, i, j] of the window d onto the delta cube of v
History(v, d, p) == [t \in Frames |-> Delta(v)[t][d.r0 + p[1]][d.c0 + p[2]]]

(* ------------------------------ spectrum ------------------------------ *)

Bins == 0 .. (NFrames \div 2)

Cos4 == <<1, 0, -1, 0>>

Sin4 == <<0, 1, 0, -1>>

\* the sum of f[lo] .. f[hi]
RECURSIVE SumOver(_, _, _)
SumOver(f, lo, hi) == IF lo > hi THEN 0 ELSE f[hi] + SumOver(f, lo, hi - 1)

\* |np.fft.rfft(hist, N)[k]| ** 2: X_k = sum of hist[t] * exp(-2 pi i k t / N)
MagSq(hist, k) ==
    LET re == SumOver([t \in Frames |-> hist[t] * Cos4[((k * t) % 4) + 1]], 0, NFrames - 1)
        im == SumOver([t \in Frames |-> -(hist[t] * Sin4[((k * t) % 4) + 1])], 0, NFrames - 1)
    IN  re * re + im * im

\* np.fft.rfftfreq(N, dt)[k], in mHz for dt in ms
RfftFreq(n, step, k) == (k * 1000000) \div (n * step)

\* np.round(f, 2): to the nearest 10 mHz, halves to the even neighbour
Round2(f) ==
    LET q == f \div 10
        r == f % 10
    IN  IF r < 5 THEN 10 * q
        ELSE IF r > 5 THEN 10 * (q + 1)
        ELSE IF q % 2 = 0 THEN 10 * q ELSE 10 * (q + 1)

(* ------------------------------ outcomes ------------------------------ *)

Raise(type, msg) == [kind |-> "error", type |-> type, msg |-> msg]

EmptyMaxMsg == "zero-size array to reduction operation maximum which has no identity"

FSpanMsg == "Frequency span around natural frequency must not be zero"

MethodMsg == "Method must be one of: Modal, TovoBenasciutti, Dirlik, Rainflow"

NoFreqMsg == "Natural frequency must be defined"

(* ------------------------------ _find_nearest ------------------------- *)

\* argmin of |array - value| by a scan from index i on: best is the index of
\* the least distance so far, replaced only by a strictly smaller one
RECURSIVE ArgMinScan(_, _, _, _)
ArgMinScan(array, value, i, best) ==
    IF i > Len(array) THEN best
    ELSE IF Abs(array[i] - value) < Abs(array[best] - value)
         THEN ArgMinScan(array, value, i + 1, i)
         ELSE ArgMinScan(array, value, i + 1, best)

\* the scan keeping the last index of the least distance
ArgMinAbsLast(array, value) ==
    MaxOf({i \in 1 .. Len(array) :
              \A j \in 1 .. Len(array) :
                  Abs(array[i] - value) <= Abs(array[j] - value)}) - 1

\* (np.abs(array - value)).argmin(), as a 0-based index
ArgMinAbs(array, value) == ArgMinScan(array, value, 2, 1) - 1

FindNearest(array, value) ==
    IF Len(array) = 0
    THEN Raise("ValueError", "attempt to get argmin of an empty sequence")
    ELSE LET idx == ArgMinAbs(array, value)
         IN  [kind |-> "nearest", val |-> array[idx + 1], idx |-> idx]

(* ------------------------------ nf_identification --------------------- *)

DefaultRoiSize == 5

DefaultBandPass == <<5000, 100000>>

\* int(c) of a coordinate c given in half pixels
IntOfCoord(c) == TruncDiv(c, 2)

\* (int(int(x_coord) - (roi_size-1)/2), int(int(y_coord) - (roi_size-1)/2),
\*  roi_size, roi_size)
PickedLocation(xc, yc, rs) ==
    << TruncDiv(2 * IntOfCoord(xc) - (rs - 1), 2),
       TruncDiv(2 * IntOfCoord(yc) - (rs - 1), 2), rs, rs >>

\* the bins selected by (freq > band_pass[0]) & (freq < band_pass[1])
InBand(n, step, bp) ==
    {k \in Bins : RfftFreq(n, step, k) > bp[1] /\ RfftFreq(n, step, k) < bp[2]}

\* the amplitudes (as MagSq) of fft[mask]: every pixel, every selected bin
Selected(v, d, sel) == {MagSq(History(v, d, p), k) : p \in Pixels(d), k \in sel}

\* np.max(..., initial = 0): 0 of no amplitude
NpMaxInitial(amps) ==
    [kind |-> "value", v |-> IF amps = {} THEN 0 ELSE MaxOf(amps)]

\* np.max of the selected amplitudes; of none it raises
NpMax(amps) ==
    IF amps = {} THEN Raise("ValueError", EmptyMaxMsg)
    ELSE [kind |-> "value", v |-> MaxOf(amps)]

\* np.where(fft == ampl)[0]: the bins of the whole spectrum at which some
\* pixel has the amplitude ampl
WhereEqual(v, d, ampl) ==
    {k \in Bins : \E p \in Pixels(d) : MagSq(History(v, d, p), k) = ampl}

NfOutcome(v, step, n, d, xc, yc, location, roi_size, band_pass) ==
    LET rs == IF roi_size = None THEN DefaultRoiSize ELSE Val(roi_size)
        bp == IF band_pass = None THEN DefaultBandPass ELSE Val(band_pass)
    IN  IF location = None /\ (xc = None \/ yc = None)
        THEN [ds |-> d, ret |-> Raise("TypeError", "int() argument must be a number")]
        ELSE LET loc  == IF location # None THEN Val(location)
                         ELSE PickedLocation(Val(xc), Val(yc), rs)
                 d1   == Crop(d, loc)
                 ampl == NpMax(Selected(v, d1, InBand(n, step, bp)))
             IN  IF ampl.kind = "error" THEN [ds |-> d1, ret |-> ampl]
                 ELSE LET at == WhereEqual(v, d1, ampl.v)
                      IN  IF at = {}
                          THEN [ds |-> d1,
                                ret |-> Raise("IndexError", "index 0 is out of bounds")]
                          ELSE LET f == RfftFreq(n, step, MinOf(at))
                               IN  [ds |-> d1,
                                    ret |-> [kind |-> "freq", raw |-> f, nf |-> Round2(f)]]

(* ------------------------------ get_life ------------------------------ *)

DefaultFSpan == 100

DefaultMethod == "TovoBenasciutti"

Methods == {"Modal", "TovoBenasciutti", "Dirlik", "Rainflow"}

\* freq * amplitude ** k * (1000 * n ** k), an integer for even k, where
\* amplitude = |X| * 2 / n: the term x_peak / (C / y_peak ** k) times
\* 1000 * C * n ** k (a zero amplitude gives C / 0.0 = inf and a zero term)
DamageTerm(hist, n, step, k, b) ==
    RfftFreq(n, step, b) * Pow(4 * MagSq(hist, b), k \div 2)

\* the bins selected by (freq >= f - f_span) & (freq <= f + f_span)
PeakBins(n, step, f, f_span) ==
    {b \in Bins : RfftFreq(n, step, b) >= f - f_span /\ RfftFreq(n, step, b) <= f + f_span}

\* the 'Modal' branch for one pixel: life = 1 / damage
ModalLife(hist, n, step, C, k, f, f_span) ==
    IF f_span # None
    THEN LET sel == PeakBins(n, step, f, Val(f_span))
         IN  Recip(SumOver([b \in Bins |->
                              IF b \in sel THEN DamageTerm(hist, n, step, k, b) ELSE 0],
                           0, NFrames \div 2),
                   1000 * C * Pow(n, k))
    ELSE LET freq == [i \in 1 .. Cardinality(Bins) |-> RfftFreq(n, step, i - 1)]
             b    == FindNearest(freq, f).idx
         IN  Recip(DamageTerm(hist, n, step, k, b), 1000 * C * Pow(n, k))

\* FLife.<method>(FLife.SpectralData(hist, dt)).get_life(C, k): the estimators
\* of the FLife library, a value determined by the pixel's history and the
\* scalar parameters
FLifeLife(method, hist, step, C, k) ==
    [estimator |-> method, history |-> hist, dt |-> step, C |-> C, k |-> k]

PixelLife(method, hist, n, step, C, k, f, f_span) ==
    IF method = "Modal" THEN ModalLife(hist, n, step, C, k, Val(f), f_span)
    ELSE FLifeLife(method, hist, step, C, k)

\* the entries of a life map in row-major order
RowMajor(h, w) == [m \in 1 .. (h * w) |-> <<(m - 1) \div w, (m - 1) % w>>]

RECURSIVE FracSum(_, _)
FracSum(lives, m) ==
    IF m = 0 THEN Frac(0, 1) ELSE FracAdd(FracSum(lives, m - 1), lives[m])

\* np.mean of the entries: their sum divided by their number; nan of none.
\* The mean of values of the FLife library is kept as a term.
MeanOf(lives) ==
    IF Len(lives) = 0 THEN NaN
    ELSE IF \A m \in 1 .. Len(lives) : "estimator" \notin DOMAIN lives[m]
         THEN FracDivInt(FracSum(lives, Len(lives)), Len(lives))
         ELSE [mean_of |-> lives]

\* np.mean(life, axis = (0,1))
MapMean(h, w, life) == MeanOf([m \in 1 .. (h * w) |-> life[RowMajor(h, w)[m]]])

\* f_span left as given
KeepFSpan(f_span) == f_span

\* method left as given, None as the string "None"
KeepMethod(method) == IF method = None THEN "None" ELSE Val(method)

\* the zero test left out
FSpanNeverZero(fs) == FALSE

\* if f_span == None: f_span = 0.1
EffectiveFSpan(f_span) == IF f_span = None THEN Some(DefaultFSpan) ELSE f_span

\* if method == None: method = 'TovoBenasciutti'
EffectiveMethod(method) == IF method = None THEN DefaultMethod ELSE Val(method)

\* if f_span == 0
FSpanIsZero(fs) == fs = Some(0)

GetLifeOutcome(v, step, C, k, method, f, location, f_span) ==
    LET n    == NFrames
        full == FullView(v)
        fs   == EffectiveFSpan(f_span)
        meth == EffectiveMethod(method)
    IN  IF FSpanIsZero(fs)
        THEN [N |-> n, ds |-> full, ret |-> Raise("ValueError", FSpanMsg)]
        ELSE IF meth \notin Methods
        THEN [N |-> n, ds |-> full, ret |-> Raise("ValueError", MethodMsg)]
        ELSE LET d == IF location # None THEN Crop(full, Val(location)) ELSE full
             IN  IF meth = "Modal" /\ f = None /\ Pixels(d) # {}
                 THEN [N |-> n, ds |-> d, ret |-> Raise("ValueError", NoFreqMsg)]
                 ELSE LET life == [p \in Pixels(d) |->
                                     PixelLife(meth, History(v, d, p), n, step, C, k, f, fs)]
                      IN  [N |-> n, ds |-> d,
                           ret |-> IF location # None
                                   THEN [kind |-> "scalar", v |-> MapMean(d.h, d.w, life)]
                                   ELSE [kind |-> "map", h |-> d.h, w |-> d.w, life |-> life]]

(* ------------------------------ the instance -------------------------- *)

DtValues == {50, 2000}

\* ROI rectangles (x, y, w, h): one pixel, the next pixel (over the edge of a
\* one-column window), two pixels of the first row, and a rectangle of no
\* pixel
Locations == {None, Some(<<0, 0, 1, 1>>), Some(<<1, 0, 1, 1>>), Some(<<0, 0, 2, 1>>),
              Some(<<0, 0, 0, 1>>)}

RoiSizes == {None, Some(2), Some(3)}

BandPasses == {None, Some(<<0, 20000>>), Some(<<100, 200>>)}

\* event.xdata, event.ydata in half pixels: pixel 0, pixel 2 (2.5), pixel 4
Clicks == {0, 5, 8}

\* (C, k, method, f, f_span) of the get_life calls: the 'Modal' calls with
\* every f and f_span, the other methods with and without f, f_span = 0
GetLifeArgs ==
    {<<10, 2, Some("Modal"), f, s>> :
        f \in {None, Some(200), Some(10000)}, s \in {None, Some(0), Some(5000)}}
    \cup
    {<<10, 4, Some("Modal"), Some(10000), s>> : s \in {None, Some(5000)}}
    \cup
    {<<10, 2, Some("Foo"), f, s>> : f \in {None, Some(10000)}, s \in {None, Some(0)}}
    \cup
    {<<10, 2, m, None, None>> :
        m \in {None, Some("TovoBenasciutti"), Some("Dirlik"), Some("Rainflow")}}
    \cup
    {<<10, 2, m, Some(10000), Some(0)>> : m \in {None, Some("Rainflow")}}

\* __init__(x, dt, x_coord, y_coord) for a video v and a time step
Construct(v, step) ==
    /\ x = v
    /\ dt = step
    /\ x_coord = None
    /\ y_coord = None
    /\ N = NFrames
    /\ ds = FullView(x)
    /\ call = [op |-> "__init__"]
    /\ ret = [kind |-> "none"]

\* _pixel_selection(event) with event.xdata = xd, event.ydata = yd
PixelSelection(xd, yd) ==
    /\ x_coord' = Some(xd)
    /\ y_coord' = Some(yd)
    /\ call' = [op |-> "_pixel_selection"]
    /\ ret' = [kind |-> "coords", x |-> xd, y |-> yd]
    /\ UNCHANGED <<x, dt, N, ds>>

NfIdentification(location, roi_size, band_pass) ==
    LET o == NfOutcome(x, dt, N, ds, x_coord, y_coord, location, roi_size, band_pass)
    IN  /\ ds' = o.ds
        /\ ret' = o.ret
        /\ call' = [op |-> "nf_identification", location |-> location,
                    roi_size |-> roi_size, band_pass |-> band_pass, before |-> ds]
        /\ UNCHANGED <<x, dt, x_coord, y_coord, N>>

GetLife(C, k, method, f, location, f_span) ==
    LET o == GetLifeOutcome(x, dt, C, k, method, f, location, f_span)
    IN  /\ N' = o.N
        /\ ds' = o.ds
        /\ ret' = o.ret
        /\ call' = [op |-> "get_life", C |-> C, k |-> k, method |-> method, f |-> f,
                    location |-> location, f_span |-> f_span]
        /\ UNCHANGED <<x, dt, x_coord, y_coord>>

\* _find_nearest(array, value) for the arguments drawn at the start
FindNearestCall ==
    /\ call.op = "_find_nearest"
    /\ ret.kind = "none"
    /\ ret' = FindNearest(call.array, call.value)
    /\ UNCHANGED <<x, dt, x_coord, y_coord, N, ds, call>>

(* Spec: the two analyses called with ROI rectangles, in any order, on an  *)
(* instance constructed without a picked coordinate.                       *)

Init == \E s \in {<<1, 2>>, <<2, 2>>}, off \in 0 .. MaxPattern, step \in DtValues :
            Construct(MkVideo(s[1], s[2], off), step)

Next ==
    \/ \E l \in Locations, b \in BandPasses : NfIdentification(l, None, b)
    \/ \E a \in GetLifeArgs, l \in Locations :
          GetLife(a[1], a[2], a[3], a[4], l, a[5])

Spec == Init /\ [][Next]_vars

(* SpecPick: the pixel picker and nf_identification without a location, on *)
(* a 5 x 5 frame.                                                          *)

InitPick == \E off \in 0 .. MaxPattern : Construct(MkVideo(5, 5, off), 50)

NextPick ==
    \/ \E xd \in Clicks, yd \in Clicks : PixelSelection(xd, yd)
    \/ \E r \in RoiSizes, b \in {None, Some(<<0, 20000>>)} : NfIdentification(None, r, b)

SpecPick == InitPick /\ [][NextPick]_vars

(* SpecNearest: _find_nearest on arrays of 0..MaxLen entries, sorted or    *)
(* not, and on the array of its documented example.                        *)

Arrays == UNION {[1 .. l -> 0 .. MaxElem] : l \in 0 .. MaxLen} \cup {<<1, 5, 9, 14>>}

InitNearest ==
    /\ x = MkVideo(1, 1, 0)
    /\ dt = 50
    /\ x_coord = None
    /\ y_coord = None
    /\ N = NFrames
    /\ ds = FullView(x)
    /\ call \in {[op |-> "_find_nearest", array |-> a, value |-> value] :
                    a \in Arrays, value \in (0 .. MaxElem) \cup {10}}
    /\ ret = [kind |-> "none"]

NextNearest == FindNearestCall

SpecNearest == InitNearest /\ [][NextNearest]_vars

(* ====================================================================== *)
(* Properties                                                              *)
(* ====================================================================== *)

IsNf == call.op = "nf_identification"

IsGetLife == call.op = "get_life"

\* the result of the last call, made on a freshly constructed instance
FreshRet ==
    IF IsNf
    THEN NfOutcome(x, dt, NFrames, FullView(x), x_coord, y_coord,
                   call.location, call.roi_size, call.band_pass).ret
    ELSE GetLifeOutcome(x, dt, call.C, call.k, call.method, call.f,
                        call.location, call.f_span).ret

\* C1: every nf_identification or get_life call analyses the delta cube of
\* the full video cropped by its own ROI only: its result is the result of
\* the same call on a freshly constructed instance.
C1_CallScoped == (IsNf \/ IsGetLife) => ret = FreshRet

BandOf(c) == IF c.band_pass = None THEN DefaultBandPass ELSE Val(c.band_pass)

\* C2: a frequency returned by nf_identification is that of a bin strictly
\* inside the pass band at which the greatest amplitude of the block's
\* pixels over the bins in the band occurs.
C2_PeakInsideBand ==
    (IsNf /\ ret.kind = "freq") =>
        LET sel == InBand(N, dt, BandOf(call))
            top == MaxOf(Selected(x, ds, sel))
        IN  \E b \in sel :
                /\ ret.raw = RfftFreq(N, dt, b)
                /\ ret.raw > BandOf(call)[1] /\ ret.raw < BandOf(call)[2]
                /\ \E p \in Pixels(ds) : MagSq(History(x, ds, p), b) = top

\* C3: get_life with method 'Modal' and no f raises the invalid-parameter
\* error, for every location, and returns neither a map nor a scalar.
C3_ModalNeedsF ==
    (IsGetLife /\ call.method = Some("Modal") /\ call.f = None) =>
        (ret.kind = "error" /\ ret.type = "ValueError")

ModalNoSpan == IsGetLife /\ call.method = Some("Modal") /\ call.f # None
                    /\ call.f_span = None

\* the result of a 'Modal' call whose pixels' lives are life[p]
Returned(life) ==
    IF call.location = None
    THEN [kind |-> "map", h |-> ds.h, w |-> ds.w, life |-> life]
    ELSE [kind |-> "scalar", v |-> MapMean(ds.h, ds.w, life)]

\* C4 (as claimed): a 'Modal' call with f_span = None computes each pixel's
\* damage from the single bin nearest to f.
C4_NoneUsesNearestBin ==
    ModalNoSpan =>
        ret = Returned([p \in Pixels(ds) |->
                LET freq == [i \in 1 .. Cardinality(Bins) |-> RfftFreq(N, dt, i - 1)]
                    b    == CHOOSE b \in Bins :
                              /\ \A o \in Bins : Abs(freq[b + 1] - Val(call.f))
                                                  <= Abs(freq[o + 1] - Val(call.f))
                              /\ \A o \in Bins : o < b =>
                                    Abs(freq[b + 1] - Val(call.f))
                                        < Abs(freq[o + 1] - Val(call.f))
                IN  Recip(DamageTerm(History(x, ds, p), N, dt, call.k, b),
                          1000 * call.C * Pow(N, call.k))])

\* C4 (amended): a 'Modal' call with f_span = None computes each pixel's
\* damage as the sum over the bins in [f - 0.1, f + 0.1] Hz: None stands for
\* the span 0.1 Hz, and the damage is 0 (the life infinite) when no bin lies
\* in that interval.
C4_NoneUsesDefaultSpan ==
    ModalNoSpan =>
        ret = Returned([p \in Pixels(ds) |->
                LET near == {b \in Bins : Abs(RfftFreq(N, dt, b) - Val(call.f)) <= 100}
                IN  Recip(SumOver([b \in Bins |->
                                    IF b \in near
                                    THEN DamageTerm(History(x, ds, p), N, dt, call.k, b)
                                    ELSE 0], 0, NFrames \div 2),
                          1000 * call.C * Pow(N, call.k))])

\* a 'Modal' call with f_span = None and f = 0.2 Hz on bins 0, 0.125 and
\* 0.25 Hz returned a finite life for a pixel: both bins 0.125 and 0.25 are
\* summed, where the nearest bin alone is 0.25
C4_Witness ==
    /\ ModalNoSpan /\ call.f = Some(200) /\ dt = 2000
    /\ ret.kind = "map"
    /\ \E p \in Pixels(ds) :
          /\ IsFrac(ret.life[p])
          /\ MagSq(History(x, ds, p), 1) > 0
          /\ MagSq(History(x, ds, p), 2) > 0

\* the map the last get_life call returns without a location
FullRet ==
    GetLifeOutcome(x, dt, call.C, call.k, call.method, call.f, None, call.f_span).ret

\* the entries [y:y+h, x:x+w] of a map m, in row-major order
MapEntries(m, loc) ==
    LET r == Slice(loc[2], loc[2] + loc[4], m.h)
        c == Slice(loc[1], loc[1] + loc[3], m.w)
    IN  [e \in 1 .. (r.n * c.n) |->
            m.life[<<r.lo + ((e - 1) \div c.n), c.lo + ((e - 1) % c.n)>>]]

C6_EmptyBandRaises ==
    (IsNf /\ InBand(N, dt, BandOf(call)) = {}) => ret.kind = "error"

\* the band is empty of bins, the block is not empty of pixels and holds an
\* amplitude 0, and the call raised
C6_Witness ==
    /\ IsNf /\ InBand(N, dt, BandOf(call)) = {}
    /\ \E p \in Pixels(ds) : MagSq(History(x, ds, p), 0) = 0
    /\ ret = Raise("ValueError", EmptyMaxMsg)

\* C7: get_life with method 'Modal' and f_span = 0 raises the
\* invalid-parameter error before the ROI is cropped and any pixel estimated.
C7_ZeroSpanRaises ==
    (IsGetLife /\ call.method = Some("Modal") /\ call.f_span = Some(0)) =>
        (ret = Raise("ValueError", FSpanMsg) /\ ds = FullView(x))

\* the zero span was rejected on a call with f and a ROI
C7_Witness ==
    /\ IsGetLife /\ call.method = Some("Modal") /\ call.f_span = Some(0)
    /\ call.f # None /\ call.location # None
    /\ ret = Raise("ValueError", FSpanMsg)

\* C8: get_life with a method string outside the four names raises the
\* invalid-parameter error before the ROI is cropped and any pixel
\* estimated; a method of None is the method 'TovoBenasciutti'.
C8_UnknownMethodRaises ==
    IsGetLife =>
        /\ (call.method # None /\ Val(call.method) \notin Methods) =>
                (ret.kind = "error" /\ ret.type = "ValueError" /\ ds = FullView(x))
        /\ call.method = None =>
                /\ ret = GetLifeOutcome(x, dt, call.C, call.k, Some("TovoBenasciutti"),
                                        call.f, call.location, call.f_span).ret
                /\ ret # Raise("ValueError", MethodMsg)

\* the unknown method was rejected on a call with f, a ROI and a valid span
C8_Witness ==
    /\ IsGetLife /\ call.method = Some("Foo") /\ call.f # None
    /\ call.location # None /\ call.f_span = None
    /\ ret = Raise("ValueError", MethodMsg)

\* C9: nf_identification without a location, on the full delta cube and
\* with the picked coordinate inside the frame, analyses a block of
\* roi_size x roi_size pixels (5 x 5 for None) whose center is the pixel
\* (int(y_coord), int(x_coord)).
C9_CenteredBlock ==
    (/\ IsNf /\ call.location = None /\ call.before = FullView(x)
     /\ x_coord # None /\ y_coord # None) =>
        LET rs == IF call.roi_size = None THEN 5 ELSE Val(call.roi_size)
            px == IntOfCoord(Val(x_coord))
            py == IntOfCoord(Val(y_coord))
        IN  (px \in 0 .. (Cols(x) - 1) /\ py \in 0 .. (Rows(x) - 1)) =>
                /\ ds.h = rs /\ ds.w = rs
                /\ py - ds.r0 \in {(rs - 1) \div 2, rs \div 2}
                /\ px - ds.c0 \in {(rs - 1) \div 2, rs \div 2}

\* C10: _find_nearest(array, value) of a non-empty array returns
\* (array[idx], idx) for the lowest index idx of the least |array[i] - value|;
\* nearest([1,5,9,14], 10) is (9, 2).
C10_Nearest ==
    (call.op = "_find_nearest" /\ ret.kind # "none" /\ Len(call.array) > 0) =>
        /\ ret.kind = "nearest"
        /\ ret.idx \in 0 .. (Len(call.array) - 1)
        /\ ret.val = call.array[ret.idx + 1]
        /\ \A i \in 1 .. Len(call.array) :
              /\ Abs(ret.val - call.value) <= Abs(call.array[i] - call.value)
              /\ i < ret.idx + 1 =>
                    Abs(ret.val - call.value) < Abs(call.array[i] - call.value)
        /\ (call.array = <<1, 5, 9, 14>> /\ call.value = 10) =>
                (ret.val = 9 /\ ret.idx = 2)

\* an unsorted array with two entries at the least distance was searched
C10_Witness ==
    /\ call.op = "_find_nearest" /\ ret.kind = "nearest"
    /\ \E i, j \in 1 .. Len(call.array) :
          /\ i < j /\ call.array[i] > call.array[j]
    /\ \E i \in 1 .. Len(call.array) :
          /\ i # ret.idx + 1
          /\ Abs(call.array[i] - call.value) = Abs(ret.val - call.value)

====
